---- MODULE Spec2Model ----
(***************************************************************************)
(* Model of chatui.py: the <think> segment extractor, the ChatManager      *)
(* (MongoDB chat store and its connection), and the Streamlit script that  *)
(* drives them.                                                            *)
(*                                                                         *)
(* Text is a sequence of one-character strings.  Python's None is the      *)
(* value None, and a present value v is Some(v).                           *)
(***************************************************************************)
EXTENDS Integers, Sequences, FiniteSets, TLC

VARIABLES
    full,           \* the text the model will have produced when generation ends
    response_text,  \* chatui.py:393  accumulated response
    thinking,       \* chatui.py:398/407  first element of the extractor's result
    content,        \* chatui.py:398/407  second element of the extractor's result
    pc,             \* position of the response loop: "idle", "stream" (a chunk
                    \* was classified), "done", or "empty" (the stream held no chunk)
    handles,        \* every MongoClient created so far: [open, uri]
    client,         \* ChatManager.client: index into handles, 0 for None
    collection,     \* ChatManager.collection: [client, db, coll]
    backend,        \* the documents of every collection of every server
    now,            \* the wall clock read by datetime.now()
    last,           \* the last ChatManager call: its arguments and outcome
    request,        \* the arguments of a save_chat call about to be made
    session_state,  \* st.session_state: messages, current_chat_id, system_prompt,
                    \* temporary_chat_mode
    widgets         \* what Streamlit keeps of the sidebar widgets between runs

chatVars == <<full, response_text, thinking, content, pc>>
storeVars == <<handles, client, collection, backend, now, last, request>>
uiVars == <<session_state, widgets>>
vars == <<chatVars, storeVars, uiVars>>

None == [some |-> FALSE, val |-> <<>>]
Some(v) == [some |-> TRUE, val |-> v]

Min(S) == CHOOSE x \in S : \A y \in S : x <= y
Max(S) == CHOOSE x \in S : \A y \in S : x >= y

(***************************************************************************)
(* Python string primitives used by the extractor                          *)
(***************************************************************************)
OpenTag == <<"<", "t", "h", "i", "n", "k", ">">>
CloseTag == <<"<", "/", "t", "h", "i", "n", "k", ">">>

\* str.strip() removes these from both ends
Whitespace == {" ", "\n", "\t"}

\* pat occurs in text at position i
OccursAt(text, pat, i) ==
    /\ i >= 1
    /\ i + Len(pat) - 1 <= Len(text)
    /\ \A k \in 1..Len(pat) : text[i + k - 1] = pat[k]

\* the positions at or after from where pat occurs
Occurrences(text, pat, from) ==
    {i \in from..Len(text) : OccursAt(text, pat, i)}

\* pat in text
Contains(text, pat) == Occurrences(text, pat, 1) # {}

\* str.strip()
Strip(s) ==
    LET keep == {i \in 1..Len(s) : s[i] \notin Whitespace}
    IN IF keep = {} THEN <<>> ELSE SubSeq(s, Min(keep), Max(keep))

\* text.split(sep)[1]-like slip: what follows the first occurrence of sep
SplitAfterFirst(text, sep) ==
    LET occ == Occurrences(text, sep, 1)
    IN IF occ = {} THEN text
       ELSE SubSeq(text, Min(occ) + Len(sep), Len(text))

\* text.split(sep)[-1]: what follows the last occurrence of sep
SplitLast(text, sep) ==
    LET occ == Occurrences(text, sep, 1)
    IN IF occ = {} THEN text
       ELSE SubSeq(text, Max(occ) + Len(sep), Len(text))

\* the pattern anchored at the end of the text (r'<think>(.*?)</think>$'): a
\* span counts only while its closing tag is the last thing received
ReSearchAnchored(text) ==
    LET j == Len(text) - Len(CloseTag) + 1
        opens == {i \in Occurrences(text, OpenTag, 1) : i + Len(OpenTag) <= j}
    IN IF ~OccursAt(text, CloseTag, j) \/ opens = {}
       THEN [found |-> FALSE, start |-> 0, stop |-> 0, gfrom |-> 0, gto |-> 0]
       ELSE [found |-> TRUE, start |-> Min(opens), stop |-> Len(text),
             gfrom |-> Min(opens) + Len(OpenTag), gto |-> j - 1]

\* re.search(r'<think>(.*?)</think>', text, re.DOTALL): the leftmost opening
\* tag that has a closing tag after it, paired with the nearest such closing
\* tag (non-greedy group).  start..stop is the match, gfrom..gto is group 1.
ReSearch(text) ==
    LET opens == {i \in Occurrences(text, OpenTag, 1) :
                     Occurrences(text, CloseTag, i + Len(OpenTag)) # {}}
    IN IF opens = {} THEN [found |-> FALSE, start |-> 0, stop |-> 0, gfrom |-> 0, gto |-> 0]
       ELSE LET i == Min(opens)
                j == Min(Occurrences(text, CloseTag, i + Len(OpenTag)))
            IN [found |-> TRUE, start |-> i, stop |-> j + Len(CloseTag) - 1,
                gfrom |-> i + Len(OpenTag), gto |-> j - 1]

\* re.sub with count=1: only the first match is replaced
ReSubFirst(text) ==
    LET m == ReSearch(text)
    IN IF ~m.found THEN text
       ELSE SubSeq(text, 1, m.start - 1) \o SubSeq(text, m.stop + 1, Len(text))

\* re.sub(pattern, '', text, flags=re.DOTALL): every non-overlapping match,
\* scanning left to right, is replaced by the empty string
RECURSIVE ReSubEmpty(_)
ReSubEmpty(text) ==
    LET m == ReSearch(text)
    IN IF ~m.found THEN text
       ELSE SubSeq(text, 1, m.start - 1)
            \o ReSubEmpty(SubSeq(text, m.stop + 1, Len(text)))

\* the extractor with every returned part stripped
ExtractStripAll(text) ==
    LET m == ReSearch(text)
    IN IF m.found
       THEN [thinking |-> Some(Strip(SubSeq(text, m.gfrom, m.gto))),
             content  |-> Some(Strip(ReSubEmpty(text)))]
       ELSE IF Contains(text, OpenTag)
            THEN [thinking |-> Some(Strip(SplitLast(text, OpenTag))), content |-> None]
            ELSE [thinking |-> None, content |-> Some(Strip(text))]

extract_thinking_and_content(text) ==
    LET m == ReSearch(text)
    IN IF m.found
       THEN [thinking |-> Some(Strip(SubSeq(text, m.gfrom, m.gto))),
             content  |-> Some(Strip(ReSubEmpty(text)))]
       ELSE IF Contains(text, OpenTag)
            THEN [thinking |-> Some(SplitLast(text, OpenTag)), content |-> None]
            ELSE [thinking |-> None, content |-> Some(text)]

(***************************************************************************)
(* pymongo as ChatManager uses it                                          *)
(***************************************************************************)
MONGO_DEFAULT_URI == "mongodb://localhost:27017"
MONGO_DEFAULT_DB == "llm_chat"
MONGO_DEFAULT_COLLECTION == "chats"
OLLAMA_DEFAULT_SYSTEM_PROMPT ==
    <<"Y", "o", "u", " ", "a", "r", "e", " ", "a", " ", "h", "e", "l", "p", "f", "u", "l",
      " ", "a", "s", "s", "i", "s", "t", "a", "n", "t", ".">>

\* URIs MongoClient accepts; it connects lazily, so any of them yields a client
WellFormedUris == {MONGO_DEFAULT_URI, "mongodb://other:27017"}
\* "" (empty host) and "mongodb://" (no host) make MongoClient raise
Uris == WellFormedUris \cup {"", "mongodb://"}
\* client[""] raises InvalidName
DbNames == {MONGO_DEFAULT_DB, ""}
CollNames == {MONGO_DEFAULT_COLLECTION, "scratch"}
Targets == WellFormedUris \X (DbNames \ {""}) \X (CollNames \ {""})

\* the state the ChatManager methods read and write
World ==
    [handles |-> handles, client |-> client, collection |-> collection,
     backend |-> backend, now |-> now]

\* the outcome of a call: the state it leaves, whether it raised, what it returned
Outcome(w, raised, ret) == [w |-> w, raised |-> raised, ret |-> ret]

\* pymongo.MongoClient(uri)
MongoClient(w, uri) ==
    IF uri \in WellFormedUris
    THEN Outcome([w EXCEPT !.handles = Append(@, [open |-> TRUE, uri |-> uri])],
                 FALSE, Len(w.handles) + 1)
    ELSE Outcome(w, TRUE, 0)

\* the collection handle can reach its server
Usable(w) == w.collection.some /\ w.handles[w.collection.val.client].open

TargetOf(w) ==
    <<w.handles[w.collection.val.client].uri, w.collection.val.db, w.collection.val.coll>>

Docs(w) == w.backend[TargetOf(w)]

\* the positions of the documents matching {'id': chat_id}
Matching(docs, chat_id) == {i \in 1..Len(docs) : docs[i].id = chat_id}

\* collection.find_one({'id': chat_id}); fail: the backend is unreachable
find_one(w, chat_id, fail) ==
    IF fail \/ ~Usable(w) THEN Outcome(w, TRUE, None)
    ELSE LET m == Matching(Docs(w), chat_id)
         IN Outcome(w, FALSE, IF m = {} THEN None ELSE Some(Docs(w)[Min(m)]))

\* collection.update_one({'id': chat_id}, {'$set': fields})
update_one(w, chat_id, fields, fail) ==
    IF fail \/ ~Usable(w) THEN Outcome(w, TRUE, 0)
    ELSE LET m == Matching(Docs(w), chat_id)
         IN IF m = {} THEN Outcome(w, FALSE, 0)
            ELSE LET old == Docs(w)[Min(m)]
                     new == [f \in DOMAIN old |->
                                IF f \in DOMAIN fields THEN fields[f] ELSE old[f]]
                 IN Outcome([w EXCEPT !.backend[TargetOf(w)][Min(m)] = new], FALSE, 1)

\* collection.insert_one(doc)
insert_one(w, doc, fail) ==
    IF fail \/ ~Usable(w) THEN Outcome(w, TRUE, 0)
    ELSE Outcome([w EXCEPT !.backend[TargetOf(w)] = Append(@, doc)], FALSE, 1)

\* collection.delete_one({'id': chat_id}); ret is deleted_count
delete_one(w, chat_id, fail) ==
    IF fail \/ ~Usable(w) THEN Outcome(w, TRUE, 0)
    ELSE LET m == Matching(Docs(w), chat_id)
         IN IF m = {} THEN Outcome(w, FALSE, 0)
            ELSE LET docs == Docs(w)
                     k == Min(m)
                 IN Outcome([w EXCEPT !.backend[TargetOf(w)] =
                                SubSeq(docs, 1, k - 1) \o SubSeq(docs, k + 1, Len(docs))],
                            FALSE, 1)

(***************************************************************************)
(* datetime                                                                *)
(***************************************************************************)
Digits == <<"0", "1", "2", "3", "4", "5", "6", "7", "8", "9">>

\* datetime.isoformat(): the reading of the clock written out, most
\* significant digit first
RECURSIVE isoformat(_)
isoformat(t) ==
    IF t < 10 THEN <<Digits[t + 1]>>
    ELSE isoformat(t \div 10) \o <<Digits[(t % 10) + 1]>>

(***************************************************************************)
(* ChatManager (chatui.py:148-205)                                         *)
(***************************************************************************)
\* the longest content that becomes a title whole
TitleMax == 50

Ellipsis == <<".", ".", ".">>

\* ChatManager.close
close(w) ==
    IF w.client # 0 THEN [w EXCEPT !.handles[w.client].open = FALSE] ELSE w

\* ChatManager.reconnect
reconnect(w, mongo_uri, mongo_db, mongo_collection) ==
    LET w1 == IF mongo_uri # "" THEN close(w) ELSE w
        c == MongoClient(w1, mongo_uri)
    IN IF c.raised THEN Outcome(w1, TRUE, None)
       ELSE LET w2 == [c.w EXCEPT !.client = c.ret]
            IN IF mongo_db = "" \/ mongo_collection = ""
               THEN Outcome(w2, TRUE, None)
               ELSE Outcome([w2 EXCEPT !.collection =
                               Some([client |-> c.ret, db |-> mongo_db,
                                     coll |-> mongo_collection])],
                            FALSE, None)

\* the positions of the user messages
UserMessages(messages) == {i \in 1..Len(messages) : messages[i].role = "user"}

\* generate_chat_title that takes the last user message
TitleFromLastUser(messages, t) ==
    IF UserMessages(messages) # {}
    THEN LET c == messages[Max(UserMessages(messages))].content
             head == SubSeq(c, 1, IF Len(c) < TitleMax THEN Len(c) ELSE TitleMax)
         IN IF Len(c) > TitleMax THEN head \o Ellipsis ELSE head
    ELSE <<"C", "h", "a", "t", " ">> \o isoformat(t)

\* ChatManager.generate_chat_title; t is what datetime.now() returns
generate_chat_title(messages, t) ==
    IF UserMessages(messages) # {}
    THEN LET c == messages[Min(UserMessages(messages))].content
             head == SubSeq(c, 1, IF Len(c) < TitleMax THEN Len(c) ELSE TitleMax)
         IN IF Len(c) > TitleMax THEN head \o Ellipsis ELSE head
    ELSE <<"C", "h", "a", "t", " ">> \o isoformat(t)

\* Python truthiness of an optional string
Truthy(opt) == opt.some /\ opt.val # <<>>

\* save_chat without chat_data.pop('title'): an update overwrites the title
SaveOverwritingTitle(w, chat_id, messages, system_prompt, title, e1, e2, fail) ==
    LET t0 == w.now + 1
        t1 == t0 + e1
        t2 == t1 + e2
        chat_data == [id |-> chat_id,
                      title |-> IF Truthy(title) THEN title.val
                                ELSE generate_chat_title(messages, t0),
                      messages |-> messages,
                      system_prompt |-> system_prompt,
                      updated_at |-> isoformat(t1)]
        wf == [w EXCEPT !.now = t1]
        found == find_one(wf, chat_id, fail = "find")
    IN IF found.raised THEN Outcome(wf, TRUE, None)
       ELSE IF found.ret.some
       THEN LET u == update_one(wf, chat_id, chat_data, fail = "write")
            IN Outcome(u.w, u.raised, None)
       ELSE LET wi == [w EXCEPT !.now = t2]
                doc == [f \in DOMAIN chat_data \cup {"created_at"} |->
                          IF f = "created_at" THEN isoformat(t2) ELSE chat_data[f]]
                i == insert_one(wi, doc, fail = "write")
            IN Outcome(i.w, i.raised, None)

\* ChatManager.save_chat.  One tick passes before the call; e1 ticks pass
\* between the clock reading of the default title and that of updated_at, e2
\* between that of updated_at and that of created_at.  fail: "find" (find_one
\* raises), "write" (update_one or insert_one raises) or "none".
save_chat(w, chat_id, messages, system_prompt, title, e1, e2, fail) ==
    LET t0 == w.now + 1
        t1 == t0 + e1
        t2 == t1 + e2
        chat_data == [id |-> chat_id,
                      title |-> IF Truthy(title) THEN title.val
                                ELSE generate_chat_title(messages, t0),
                      messages |-> messages,
                      system_prompt |-> system_prompt,
                      updated_at |-> isoformat(t1)]
        wf == [w EXCEPT !.now = t1]
        found == find_one(wf, chat_id, fail = "find")
    IN IF found.raised THEN Outcome(wf, TRUE, None)
       ELSE IF found.ret.some
       THEN LET fields == [f \in DOMAIN chat_data \ {"title"} |-> chat_data[f]]
                u == update_one(wf, chat_id, fields, fail = "write")
            IN Outcome(u.w, u.raised, None)
       ELSE LET wi == [w EXCEPT !.now = t2]
                doc == [f \in DOMAIN chat_data \cup {"created_at"} |->
                          IF f = "created_at" THEN isoformat(t2) ELSE chat_data[f]]
                i == insert_one(wi, doc, fail = "write")
            IN Outcome(i.w, i.raised, None)

\* ChatManager.load_chat
load_chat(w, chat_id, fail) ==
    LET f == find_one(w, chat_id, fail)
    IN IF f.raised THEN Outcome(w, FALSE, None) ELSE Outcome(f.w, FALSE, f.ret)

\* ChatManager.delete_chat that reports success whenever the backend answered
DeleteAlwaysTrue(w, chat_id, fail) ==
    LET d == delete_one(w, chat_id, fail)
    IN IF d.raised THEN Outcome(w, FALSE, FALSE) ELSE Outcome(d.w, FALSE, d.ret >= 0)

\* ChatManager.delete_chat
delete_chat(w, chat_id, fail) ==
    LET d == delete_one(w, chat_id, fail)
    IN IF d.raised THEN Outcome(w, FALSE, FALSE) ELSE Outcome(d.w, FALSE, d.ret > 0)

\* ChatManager.list_chats
list_chats(w) == IF Usable(w) THEN Outcome(w, FALSE, Docs(w)) ELSE Outcome(w, TRUE, <<>>)

\* ChatManager.__init__
ChatManagerInit(w, mongo_uri, mongo_db, mongo_collection) ==
    reconnect([w EXCEPT !.client = 0], mongo_uri, mongo_db, mongo_collection)

\* before any ChatManager exists: no client, every collection empty
Blank ==
    [handles |-> <<>>, client |-> 0, collection |-> None,
     backend |-> [t \in Targets |-> <<>>], now |-> 0]

(***************************************************************************)
(* Calls on the ChatManager                                                *)
(***************************************************************************)
\* the clock is followed up to this reading
MaxClock == 2
\* at most this many MongoClients are created
MaxHandles == 2

SetWorld(w) ==
    /\ handles' = w.handles
    /\ client' = w.client
    /\ collection' = w.collection
    /\ backend' = w.backend
    /\ now' = w.now

NoCall ==
    [op |-> "none", chat_id |-> 0, messages |-> <<>>, system_prompt |-> <<>>,
     title |-> None, fail |-> FALSE, existed |-> FALSE, raised |-> FALSE, ret |-> None]

\* a document with this id is stored in the connected collection
Stored(w, chat_id) == Usable(w) /\ Matching(Docs(w), chat_id) # {}

Save(chat_id, messages, system_prompt, title, e1, e2, fail) ==
    /\ now < MaxClock
    /\ LET o == save_chat(World, chat_id, messages, system_prompt, title, e1, e2, fail)
       IN /\ SetWorld(o.w)
          /\ last' = IF o.raised
                      THEN [NoCall EXCEPT !.op = "save", !.chat_id = chat_id,
                                          !.fail = fail # "none", !.raised = TRUE]
                      ELSE [NoCall EXCEPT !.op = "save", !.chat_id = chat_id,
                                          !.messages = messages,
                                          !.system_prompt = system_prompt,
                                          !.title = title,
                                          !.existed = Stored(World, chat_id)]
    /\ UNCHANGED <<chatVars, request, uiVars>>

Load(chat_id, fail) ==
    /\ LET o == load_chat(World, chat_id, fail)
       IN /\ SetWorld(o.w)
          /\ last' = [NoCall EXCEPT !.op = "load", !.chat_id = chat_id, !.fail = fail,
                                    !.existed = Stored(World, chat_id),
                                    !.raised = o.raised, !.ret = o.ret]
    /\ UNCHANGED <<chatVars, request, uiVars>>

Delete(chat_id, fail) ==
    /\ LET o == delete_chat(World, chat_id, fail)
       IN /\ SetWorld(o.w)
          /\ last' = [NoCall EXCEPT !.op = "delete", !.chat_id = chat_id, !.fail = fail,
                                    !.existed = Stored(World, chat_id),
                                    !.raised = o.raised, !.ret = Some(o.ret)]
    /\ UNCHANGED <<chatVars, request, uiVars>>

Reconnect(mongo_uri, mongo_db, mongo_collection) ==
    /\ Len(handles) < MaxHandles
    /\ LET o == reconnect(World, mongo_uri, mongo_db, mongo_collection)
       IN /\ SetWorld(o.w)
          /\ last' = [NoCall EXCEPT !.op = "reconnect", !.raised = o.raised]
    /\ UNCHANGED <<chatVars, request, uiVars>>

Msg(role, text) == [role |-> role, content |-> text]

Hi == <<"h", "i">>
\* a text of n characters whose last character differs from the others
Long(n) == [i \in 1..n |-> IF i = n THEN "z" ELSE "x"]

Ids == {1, 2}
SystemPrompts == {<<"p", "1">>, <<"p", "2">>}
Titles == {None, Some(<<>>), Some(<<"T">>)}
Ticks == {0, 1}
SaveFailures == {"none", "find", "write"}

StoreMessages ==
    {<<Msg("system", <<"p", "1">>), Msg("assistant", Hi)>>,
     <<Msg("system", <<"p", "1">>), Msg("user", Hi), Msg("assistant", Hi)>>}

\* chatui.py:224-231: the session state of a new browser session
NewSession ==
    [messages |-> <<>>, current_chat_id |-> 0,
     system_prompt |-> OLLAMA_DEFAULT_SYSTEM_PROMPT, temporary_chat_mode |-> FALSE]

\* no widget has been rendered yet
NoWidgets ==
    [view |-> "none",
     toggle |-> [live |-> FALSE, key |-> FALSE, val |-> FALSE],
     select |-> [live |-> FALSE, options |-> <<>>, index |-> 0, val |-> 0]]

IdleUI ==
    /\ session_state = NewSession
    /\ widgets = NoWidgets

IdleChat ==
    /\ full = <<>>
    /\ response_text = <<>>
    /\ thinking = None
    /\ content = None
    /\ pc = "idle"

\* chatui.py:221: the ChatManager the script creates
DefaultManager ==
    ChatManagerInit(Blank, MONGO_DEFAULT_URI, MONGO_DEFAULT_DB, MONGO_DEFAULT_COLLECTION).w

InitStore ==
    /\ IdleChat
    /\ IdleUI
    /\ handles = DefaultManager.handles
    /\ client = DefaultManager.client
    /\ collection = DefaultManager.collection
    /\ backend = DefaultManager.backend
    /\ now = DefaultManager.now
    /\ last = NoCall
    /\ request = None

NextStore ==
    \/ \E chat_id \in Ids, messages \in StoreMessages, system_prompt \in SystemPrompts,
          title \in Titles, e1 \in Ticks, e2 \in Ticks, fail \in SaveFailures :
          Save(chat_id, messages, system_prompt, title, e1, e2, fail)
    \/ \E chat_id \in Ids, fail \in BOOLEAN : Load(chat_id, fail)
    \/ \E chat_id \in Ids, fail \in BOOLEAN : Delete(chat_id, fail)

\* save, load and delete called in any order on one connected ChatManager
SpecStore == InitStore /\ [][NextStore]_vars

\* The ChatManager is created with any arguments that let its constructor
\* return, then re-pointed and used
InitConn ==
    /\ IdleChat
    /\ IdleUI
    /\ \E u \in Uris, d \in DbNames, c \in CollNames :
          LET o == ChatManagerInit(Blank, u, d, c)
          IN /\ ~o.raised
             /\ handles = o.w.handles
             /\ client = o.w.client
             /\ collection = o.w.collection
             /\ backend = o.w.backend
             /\ now = o.w.now
    /\ last = NoCall
    /\ request = None

NextConn ==
    \/ \E u \in Uris, d \in DbNames, c \in CollNames : Reconnect(u, d, c)
    \/ \E e2 \in Ticks, fail \in SaveFailures :
          Save(1, <<Msg("user", Hi)>>, <<"p", "1">>, None, 0, e2, fail)
    \/ \E fail \in BOOLEAN : Load(1, fail)
    \/ \E fail \in BOOLEAN : Delete(1, fail)

SpecConn == InitConn /\ [][NextConn]_vars

\* at most this many messages are passed to save_chat
MaxMessages == 2

Roles == {"system", "user", "assistant"}
TitleContents == {Long(TitleMax - 1), Long(TitleMax), Long(TitleMax + 1)}
TitleMessages ==
    UNION {[1..n -> {Msg(r, c) : r \in Roles, c \in TitleContents}] : n \in 0..MaxMessages}

\* a save_chat call with any short list of messages is about to be made on
\* the empty store
InitTitle ==
    /\ IdleChat
    /\ IdleUI
    /\ handles = DefaultManager.handles
    /\ client = DefaultManager.client
    /\ collection = DefaultManager.collection
    /\ backend = DefaultManager.backend
    /\ now = DefaultManager.now
    /\ last = NoCall
    /\ \E messages \in TitleMessages, title \in Titles :
          request = Some([messages |-> messages, title |-> title])

\* the call is made
SaveRequested(e1, e2) ==
    /\ request.some
    /\ Save(1, request.val.messages, <<"p", "1">>, request.val.title, e1, e2, "none")

NextTitle == \E e1 \in Ticks, e2 \in Ticks : SaveRequested(e1, e2)

SpecTitle == InitTitle /\ [][NextTitle]_vars

(***************************************************************************)
(* The Streamlit script (chatui.py:209-430).  Every interaction of the     *)
(* user runs the script from the top; st.rerun() stops the run and starts  *)
(* another.  A widget without a key keeps its value from one run to the    *)
(* next only while it is rendered with the same parameters; the values of  *)
(* widgets a completed run did not render are dropped.                     *)
(*                                                                         *)
(* Each message carries a tag, temporary, that the program does not have:  *)
(* it records whether the message was appended by a run in temporary mode. *)
(***************************************************************************)
\* a prompt is accepted while the session holds fewer messages than this
MaxSession == 3
\* the browser session is followed until the clock has been read this often
MaxSaves == 1

TMsg(role, text, temporary) == [role |-> role, content |-> text, temporary |-> temporary]

\* what the model answers
Reply == <<"o", "k">>

DigitValue(c) == CHOOSE d \in 0..9 : Digits[d + 1] = c

\* datetime.fromisoformat
RECURSIVE fromisoformat(_)
fromisoformat(str) ==
    IF str = <<>> THEN 0
    ELSE fromisoformat(SubSeq(str, 1, Len(str) - 1)) * 10 + DigitValue(str[Len(str)])

\* sorted(chats, key=lambda x: datetime.fromisoformat(x['created_at']), reverse=True)
SortedChats(docs) ==
    LET v(i) == fromisoformat(docs[i].created_at)
        rank(i) == Cardinality({j \in 1..Len(docs) :
                                  v(j) > v(i) \/ (v(j) = v(i) /\ j < i)}) + 1
    IN [k \in 1..Len(docs) |-> docs[CHOOSE i \in 1..Len(docs) : rank(i) = k]]

\* str(uuid.uuid4()): an id that nothing refers to
uuid4(w, ss) ==
    LET used == {ss.current_chat_id} \cup
                UNION {{w.backend[t][i].id : i \in 1..Len(w.backend[t])} : t \in Targets}
    IN Min((1..(Cardinality(used) + 1)) \ used)

\* reset_chat that leaves the messages in place
ResetKeepingMessages(ss, uuid) ==
    [ss EXCEPT !.current_chat_id = uuid,
               !.system_prompt = OLLAMA_DEFAULT_SYSTEM_PROMPT]

\* reset_chat (chatui.py:234-237)
reset_chat(ss, uuid) ==
    [ss EXCEPT !.messages = <<>>,
               !.current_chat_id = uuid,
               !.system_prompt = OLLAMA_DEFAULT_SYSTEM_PROMPT]

NoEvent == [kind |-> "none", arg |-> 0]
CalmEnv ==
    [fault |-> "none", generate |-> FALSE, llm_title |-> <<>>, e1 |-> 0, e2 |-> 0]

\* where a run stands after the sidebar.  stop: "no" (the script goes on),
\* "rerun" (st.rerun()) or "error" (an uncaught exception ends the run)
Step(w, ss, wd, enable, selected, stop) ==
    [w |-> w, ss |-> ss, wd |-> wd, enable |-> enable, selected |-> selected,
     stop |-> stop]

\* chatui.py:256, st.toggle(..., value=st.session_state.temporary_chat_mode):
\* the widget keeps the user's setting only while value= is what it was
EnableTemporary(ss, wd) ==
    IF wd.toggle.live /\ wd.toggle.key = ss.temporary_chat_mode
    THEN wd.toggle.val
    ELSE ss.temporary_chat_mode

ToggleRendered(ss, wd, enable) ==
    [wd EXCEPT !.toggle = [live |-> TRUE, key |-> ss.temporary_chat_mode, val |-> enable],
               !.view = IF enable THEN "temp" ELSE "chats"]

\* chatui.py:299
ModeSet(ss, enable) == [ss EXCEPT !.temporary_chat_mode = enable]

\* chatui.py:257-259 and 298-299
TemporaryTab(w, ss, wd, enable) ==
    Step(w,
         ModeSet(IF enable # ss.temporary_chat_mode THEN reset_chat(ss, uuid4(w, ss)) ELSE ss,
                 enable),
         wd, enable, 0, "no")

\* chatui.py:264, the labels of the chats; New Chat is option 0
Options(chats) == [k \in 1..Len(chats) |-> <<chats[k].title, chats[k].created_at>>]

\* chatui.py:268-270
IndexOf(chats, chat_id) ==
    LET at == {k \in 1..Len(chats) : chats[k].id = chat_id}
    IN IF at = {} THEN 0 ELSE Min(at)

\* chatui.py:265-271, st.selectbox: the user's choice is kept only while
\* options= and index= are what they were
Selected(wd, options, index) ==
    IF wd.select.live /\ wd.select.options = options /\ wd.select.index = index
    THEN wd.select.val
    ELSE index

SelectRendered(wd, options, index) ==
    [wd EXCEPT !.select = [live |-> TRUE, options |-> options, index |-> index,
                           val |-> Selected(wd, options, index)]]

\* chatui.py:277-286
LoadButton(w, ss, wd, chat_id, selected, loaded_chat) ==
    IF loaded_chat.some
    THEN Step(w,
              [ss EXCEPT !.messages = loaded_chat.val.messages,
                         !.current_chat_id = chat_id,
                         !.system_prompt = loaded_chat.val.system_prompt],
              wd, FALSE, selected, "rerun")
    ELSE Step(w, ModeSet(ss, FALSE), wd, FALSE, selected, "no")

\* chatui.py:288-295
DeleteButton(w, ss, wd, chat_id, selected, deleted) ==
    IF deleted.ret
    THEN Step(deleted.w,
              IF ss.current_chat_id = chat_id
              THEN reset_chat(ss, uuid4(deleted.w, ss))
              ELSE ss,
              wd, FALSE, selected, "rerun")
    ELSE Step(w, ModeSet(ss, FALSE), wd, FALSE, selected, "no")

\* chatui.py:272-299
Buttons(w, ss, wd, ev, env, chats, selected) ==
    IF selected = 0
    THEN Step(w, ModeSet(reset_chat(ss, uuid4(w, ss)), FALSE), wd, FALSE, selected, "no")
    ELSE IF ev.kind = "load"
    THEN LoadButton(w, ss, wd, chats[selected].id, selected,
                    load_chat(w, chats[selected].id, env.fault = "load").ret)
    ELSE IF ev.kind = "delete"
    THEN DeleteButton(w, ss, wd, chats[selected].id, selected,
                      delete_chat(w, chats[selected].id, env.fault = "delete"))
    ELSE Step(w, ModeSet(ss, FALSE), wd, FALSE, selected, "no")

\* chatui.py:263-271
ChatsTab(w, ss, wd, ev, env, chats) ==
    Buttons(w, ss,
            SelectRendered(wd, Options(chats), IndexOf(chats, ss.current_chat_id)),
            ev, env, chats,
            Selected(wd, Options(chats), IndexOf(chats, ss.current_chat_id)))

\* chatui.py:257-299
Tabs(w, ss, wd, ev, env, enable) ==
    IF enable THEN TemporaryTab(w, ss, wd, enable)
    ELSE IF env.fault = "list" \/ list_chats(w).raised
    THEN Step(w, ss, [wd EXCEPT !.view = "error"], enable, 0, "error")
    ELSE ChatsTab(w, ss, wd, ev, env, SortedChats(list_chats(w).ret))

\* chatui.py:242-299, the chat tab of the sidebar
Sidebar(w, ss, wd, ev, env) ==
    Tabs(w, ss, ToggleRendered(ss, wd, EnableTemporary(ss, wd)), ev, env,
         EnableTemporary(ss, wd))

\* chatui.py:325 and 364-378: the system prompt and the user's message.  The
\* Instruction box is left with the text it was rendered with.
Asked(ss, prompt, enable) ==
    LET ollama_system_prompt == ss.system_prompt
        announce == Len(ss.messages) = 0 \/ ss.system_prompt # ollama_system_prompt
    IN [ss EXCEPT !.system_prompt = IF announce THEN ollama_system_prompt ELSE @,
                  !.messages = Append(IF announce
                                      THEN Append(@, TMsg("system", ollama_system_prompt,
                                                          enable))
                                      ELSE @,
                                      TMsg("user", prompt, enable))]

\* chatui.py:424-430
Saved(ss, saved) ==
    [w |-> saved.w, ss |-> ss, stop |-> IF saved.raised THEN "no" ELSE "rerun"]

\* chatui.py:414-430
Persist(w, ss, enable, selected, env) ==
    IF enable THEN [w |-> w, ss |-> ss, stop |-> "no"]
    ELSE IF env.generate /\ selected = 0 /\ env.fault = "title"
    THEN [w |-> w, ss |-> ss, stop |-> "no"]
    ELSE Saved(ss, save_chat(w, ss.current_chat_id, ss.messages, ss.system_prompt,
                             IF env.generate /\ selected = 0
                             THEN Some(env.llm_title) ELSE None,
                             env.e1, env.e2,
                             IF env.fault \in {"find", "write"} THEN env.fault
                             ELSE "none"))

\* chatui.py:382-412
Answered(w, ss, enable, selected, env) ==
    IF env.fault = "chat" THEN [w |-> w, ss |-> ss, stop |-> "error"]
    ELSE Persist(w, [ss EXCEPT !.messages = Append(@, TMsg("assistant", Reply, enable))],
                 enable, selected, env)

\* chatui.py:361-430: the prompt, the answer and the save
MainWindow(w, ss, enable, selected, ev, env) ==
    IF ev.kind # "prompt" THEN [w |-> w, ss |-> ss, stop |-> "no"]
    ELSE Answered(w, Asked(ss, ev.arg, enable), enable, selected, env)

\* the end of a run: a run that completes drops the state of the widgets it
\* did not render
Finished(sb, mw) ==
    [w |-> mw.w, ss |-> mw.ss,
     wd |-> IF mw.stop = "no" /\ sb.enable
            THEN [sb.wd EXCEPT !.select.live = FALSE]
            ELSE sb.wd,
     rerun |-> mw.stop = "rerun"]

AfterSidebar(sb, ev, env) ==
    IF sb.stop # "no"
    THEN [w |-> sb.w, ss |-> sb.ss, wd |-> sb.wd, rerun |-> sb.stop = "rerun"]
    ELSE Finished(sb, MainWindow(sb.w, sb.ss, sb.enable, sb.selected, ev, env))

\* chatui.py:259, on_click=lambda: st.session_state.messages.clear()
Callback(ss, ev) == IF ev.kind = "clear" THEN [ss EXCEPT !.messages = <<>>] ELSE ss

\* the widget the user changed
FrontEnd(wd, ev) ==
    IF ev.kind = "toggle" THEN [wd EXCEPT !.toggle.val = ~@]
    ELSE IF ev.kind = "select" THEN [wd EXCEPT !.select.val = ev.arg]
    ELSE wd

\* one run of the script: the event's effect on the front end (the widget the
\* user changed, the on_click callback), then the script from the top.  The
\* ChatManager each run makes (chatui.py:221) connects to the default
\* collection; the handles it opens are not followed here.
ScriptRun(w, ss, wd, ev, env) ==
    AfterSidebar(Sidebar(w, Callback(ss, ev), FrontEnd(wd, ev), ev, env), ev, env)

\* after st.rerun(), the run that follows
Rerun(r1, env) ==
    IF r1.rerun
    THEN ScriptRun(r1.w, r1.ss, r1.wd, NoEvent,
                   [CalmEnv EXCEPT !.fault = IF env.fault = "relist" THEN "list"
                                             ELSE "none"])
    ELSE r1

Shown(r) ==
    /\ r.w.now <= MaxSaves
    /\ SetWorld(r.w)
    /\ session_state' = r.ss
    /\ widgets' = r.wd
    /\ UNCHANGED <<chatVars, last, request>>

\* an interaction: the run it starts and, after st.rerun(), the run that follows
Interaction(ev, env) ==
    Shown(Rerun(ScriptRun(World, session_state, widgets, ev, env), env))

\* the page is loaded, or a widget that the chat does not depend on is changed
Refresh(fault) == Interaction(NoEvent, [CalmEnv EXCEPT !.fault = fault])

ToggleTemporary(fault) ==
    /\ widgets.view # "none"
    /\ Interaction([kind |-> "toggle", arg |-> 0], [CalmEnv EXCEPT !.fault = fault])

ClearMessages ==
    /\ widgets.view = "temp"
    /\ Interaction([kind |-> "clear", arg |-> 0], CalmEnv)

SelectChat(k, fault) ==
    /\ widgets.view = "chats"
    /\ widgets.select.live
    /\ k \in 0..Len(widgets.select.options)
    /\ k # widgets.select.val
    /\ Interaction([kind |-> "select", arg |-> k], [CalmEnv EXCEPT !.fault = fault])

LoadChat(fault) ==
    /\ widgets.view = "chats"
    /\ widgets.select.live
    /\ widgets.select.val # 0
    /\ Interaction([kind |-> "load", arg |-> 0], [CalmEnv EXCEPT !.fault = fault])

DeleteChat(fault) ==
    /\ widgets.view = "chats"
    /\ widgets.select.live
    /\ widgets.select.val # 0
    /\ Interaction([kind |-> "delete", arg |-> 0], [CalmEnv EXCEPT !.fault = fault])

SendPrompt(prompt, env) ==
    /\ widgets.view \in {"temp", "chats"}
    /\ Len(session_state.messages) < MaxSession
    /\ Interaction([kind |-> "prompt", arg |-> prompt], env)

PromptEnvs ==
    [fault : {"none", "list", "chat", "title", "find", "write", "relist"},
     generate : BOOLEAN, llm_title : {<<>>, <<"T">>}, e1 : {0}, e2 : Ticks]

InitUI ==
    /\ IdleChat
    /\ IdleUI
    /\ handles = DefaultManager.handles
    /\ client = DefaultManager.client
    /\ collection = DefaultManager.collection
    /\ backend = DefaultManager.backend
    /\ now = DefaultManager.now
    /\ last = NoCall
    /\ request = None

NextUI ==
    \/ \E fault \in {"none", "list"} : Refresh(fault)
    \/ \E fault \in {"none", "list"} : ToggleTemporary(fault)
    \/ ClearMessages
    \/ \E k \in 0..MaxSaves, fault \in {"none", "list"} : SelectChat(k, fault)
    \/ \E fault \in {"none", "list", "load", "relist"} : LoadChat(fault)
    \/ \E fault \in {"none", "list", "delete", "relist"} : DeleteChat(fault)
    \/ \E env \in PromptEnvs : SendPrompt(Hi, env)

\* one browser session driving the script
SpecUI == InitUI /\ [][NextUI]_vars

(***************************************************************************)
(* The response loop (chatui.py:382-412)                                   *)
(***************************************************************************)
\* A response is made of at most MaxPieces pieces
MaxPieces == 4

Pieces == {OpenTag, CloseTag, <<" ">>, <<"a">>}

RECURSIVE Flatten(_)
Flatten(ps) == IF ps = <<>> THEN <<>> ELSE Head(ps) \o Flatten(Tail(ps))

Responses == {Flatten(ps) : ps \in UNION {[1..n -> Pieces] : n \in 0..MaxPieces}}

InitChat ==
    /\ full \in Responses
    /\ response_text = <<>>
    /\ thinking = None
    /\ content = None
    /\ pc = "idle"
    /\ IdleUI
    /\ handles = DefaultManager.handles
    /\ client = DefaultManager.client
    /\ collection = DefaultManager.collection
    /\ backend = DefaultManager.backend
    /\ now = DefaultManager.now
    /\ last = NoCall
    /\ request = None

\* chatui.py:396-398: one chunk of the stream arrives and the accumulated
\* text is classified afresh
StreamChunk(n) ==
    /\ pc \in {"idle", "stream"}
    /\ Len(response_text) + n <= Len(full)
    /\ response_text' = SubSeq(full, 1, Len(response_text) + n)
    /\ LET r == extract_thinking_and_content(response_text')
       IN /\ thinking' = r.thinking
          /\ content' = r.content
    /\ pc' = "stream"
    /\ UNCHANGED <<full, storeVars, uiVars>>

\* chatui.py:396, 412: the stream is exhausted
StreamEnd ==
    /\ pc \in {"idle", "stream"}
    /\ response_text = full
    /\ pc' = IF pc = "idle" THEN "empty" ELSE "done"
    /\ UNCHANGED <<full, response_text, thinking, content, storeVars, uiVars>>

\* chatui.py:406-407: the whole response arrives at once
NonStream ==
    /\ pc = "idle"
    /\ response_text' = full
    /\ LET r == extract_thinking_and_content(response_text')
       IN /\ thinking' = r.thinking
          /\ content' = r.content
    /\ pc' = "done"
    /\ UNCHANGED <<full, storeVars, uiVars>>

NextChat ==
    \/ \E n \in 1..Len(full) : StreamChunk(n)
    \/ StreamEnd
    \/ NonStream

SpecChat == InitChat /\ [][NextChat]_vars

(***************************************************************************)
(* Properties of the chat store                                            *)
(***************************************************************************)
\* the stored document with this id
DocOf(w, chat_id) == Docs(w)[Min(Matching(Docs(w), chat_id))]

OpenHandles == {h \in 1..Len(handles) : handles[h].open}

\* C1: a save on an id that has a record replaces the record's messages and
\* system_prompt and changes its updated_at, and leaves its id, created_at and
\* title as they were whatever title is passed; no call changes the
\* created_at, title or id of a record that stays stored.
C1_UpdateKeepsTitleAndCreation ==
    [][/\ (last'.op = "save" /\ ~last'.raised /\ last'.existed) =>
            LET old == DocOf(World, last'.chat_id)
                new == DocOf(World', last'.chat_id)
            IN /\ new.messages = last'.messages
               /\ new.system_prompt = last'.system_prompt
               /\ new.updated_at # old.updated_at
               /\ new.id = old.id
               /\ new.created_at = old.created_at
               /\ new.title = old.title
               /\ Len(Docs(World')) = Len(Docs(World))
       /\ \A c \in Ids : (Stored(World, c) /\ Stored(World', c)) =>
               /\ DocOf(World', c).created_at = DocOf(World, c).created_at
               /\ DocOf(World', c).title = DocOf(World, c).title]_vars

\* C1 witness: a record was updated by a save that passed a title other than
\* the stored one, with other messages than those it was created with
C1_Witness ==
    /\ last.op = "save" /\ ~last.raised /\ last.existed
    /\ Truthy(last.title)
    /\ DocOf(World, last.chat_id).title # last.title.val
    /\ DocOf(World, last.chat_id).messages = last.messages
    /\ DocOf(World, last.chat_id).updated_at # DocOf(World, last.chat_id).created_at

\* C2: after a save on an id that had no record, load of that id returns a
\* record whose created_at equals its updated_at and whose title is the
\* supplied title, or a derived title when none was supplied.
C2_NewRecordCreatedEqualsUpdated ==
    (last.op = "save" /\ ~last.raised /\ ~last.existed) =>
        LET r == load_chat(World, last.chat_id, FALSE).ret
        IN /\ r.some
           /\ r.val.created_at = r.val.updated_at
           /\ Truthy(last.title) => r.val.title = last.title.val

\* C3: exactly one connection handle is open, and the client and the
\* collection of the ChatManager both refer to it.
C3_ExactlyOneOpenHandle ==
    /\ Cardinality(OpenHandles) = 1
    /\ client \in OpenHandles
    /\ collection.some
    /\ collection.val.client = client

\* C7: load and delete never raise; delete returns true exactly when a record
\* with the id existed and the call removed it, after which load finds none;
\* it returns false and leaves the store as it was when there is no such
\* record; on a backend error delete returns false and load returns nothing.
C7_LoadDeleteFailSoft ==
    [][/\ last'.op = "delete" =>
            /\ ~last'.raised
            /\ last'.ret.val = (Stored(World, last'.chat_id) /\ ~Stored(World', last'.chat_id))
            /\ last'.ret.val => load_chat(World', last'.chat_id, FALSE).ret = None
            /\ last'.ret.val => Len(Docs(World')) = Len(Docs(World)) - 1
            /\ ~Stored(World, last'.chat_id) => (~last'.ret.val /\ backend' = backend)
            /\ last'.fail => (~last'.ret.val /\ backend' = backend)
            /\ (~last'.fail /\ Stored(World, last'.chat_id)) => last'.ret.val
       /\ last'.op = "load" =>
            /\ ~last'.raised
            /\ backend' = backend
            /\ last'.fail => last'.ret = None
            /\ ~last'.fail => last'.ret = IF Stored(World, last'.chat_id)
                                            THEN Some(DocOf(World, last'.chat_id))
                                            ELSE None]_vars

\* C7 witness: a delete returned true and left another record in the store
C7_Witness ==
    /\ last.op = "delete"
    /\ last.ret = Some(TRUE)
    /\ Len(Docs(World)) > 0

\* C9: when a save inserts a record and no title is supplied, the stored
\* title comes from the first message in order whose role is user: its first
\* TitleMax characters, followed by the ellipsis exactly when the content is
\* longer; without a user message it is "Chat " and a reading of the clock.
C9_TitleFromFirstUserMessage ==
    (last.op = "save" /\ ~last.raised /\ ~last.existed /\ ~Truthy(last.title)) =>
        LET t == DocOf(World, last.chat_id).title
            m == last.messages
        IN \/ \E i \in 1..Len(m) :
                /\ m[i].role = "user"
                /\ \A j \in 1..(i - 1) : m[j].role # "user"
                /\ t = IF Len(m[i].content) > TitleMax
                       THEN [k \in 1..(TitleMax + 3) |->
                               IF k <= TitleMax THEN m[i].content[k] ELSE "."]
                       ELSE m[i].content
           \/ /\ \A i \in 1..Len(m) : m[i].role # "user"
              /\ \E u \in 0..now : t = <<"C", "h", "a", "t", " ">> \o isoformat(u)

\* C9 witness: a record was inserted without a title from messages whose
\* second message is the first user message, one character too long
C9_Witness ==
    /\ last.op = "save" /\ ~last.raised /\ ~last.existed /\ ~Truthy(last.title)
    /\ Len(last.messages) = 2
    /\ last.messages[1].role = "assistant"
    /\ last.messages[2].role = "user"
    /\ Len(last.messages[2].content) = TitleMax + 1
    /\ Len(DocOf(World, last.chat_id).title) = TitleMax + 3

(***************************************************************************)
(* Properties of the temporary mode                                        *)
(***************************************************************************)
\* no stored record holds a message appended in temporary mode
NoTemporaryStored ==
    \A t \in Targets : \A i \in 1..Len(backend[t]) :
        \A k \in 1..Len(backend[t][i].messages) : ~backend[t][i].messages[k].temporary

\* C10: an interaction whose run is in temporary mode leaves the chat store
\* as it was, and no stored record ever holds a message that was appended in
\* temporary mode, also after temporary mode has been switched off.
C10_TemporaryNeverStored ==
    [][/\ widgets'.view = "temp" => backend' = backend
       /\ NoTemporaryStored']_vars

\* C10 witness: temporary mode is on with messages exchanged in it while the
\* store holds a record
C10_Witness ==
    /\ widgets.view = "temp"
    /\ session_state.temporary_chat_mode
    /\ Len(session_state.messages) >= 3
    /\ \A k \in 1..Len(session_state.messages) : session_state.messages[k].temporary
    /\ Len(Docs(World)) > 0

(***************************************************************************)
(* Properties of the extractor                                             *)
(***************************************************************************)
\* the extractor has been applied to response_text
Extracted == pc \in {"stream", "done"}

\* a complete span: an opening tag with a closing tag somewhere after it
CompleteSpans(text) ==
    {<<i, j>> \in (1..Len(text)) \X (1..Len(text)) :
        /\ OccursAt(text, OpenTag, i)
        /\ OccursAt(text, CloseTag, j)
        /\ j >= i + Len(OpenTag)}

HasCompleteSpan(text) == CompleteSpans(text) # {}

\* the first complete span: the earliest opening tag of any complete span and
\* the earliest closing tag after it
FirstSpan(text) ==
    LET i == Min({sp[1] : sp \in CompleteSpans(text)})
        j == Min({sp[2] : sp \in {q \in CompleteSpans(text) : q[1] = i}})
    IN <<i, j>>

\* the complete spans met scanning left to right from position from, each
\* starting after the previous one has ended
RECURSIVE SpansFrom(_, _)
SpansFrom(text, from) ==
    LET later == {sp \in CompleteSpans(text) : sp[1] >= from}
    IN IF later = {} THEN {}
       ELSE LET i == Min({sp[1] : sp \in later})
                j == Min({sp[2] : sp \in {q \in later : q[1] = i}})
            IN {<<i, j>>} \cup SpansFrom(text, j + Len(CloseTag))

\* the characters of text at the positions in P, in order
Pick(text, P) ==
    [k \in 1..Cardinality(P) |->
        text[CHOOSE p \in P : Cardinality({q \in P : q <= p}) = k]]

\* text without the characters of the given spans (tags included)
Without(text, spans) ==
    Pick(text, {p \in 1..Len(text) :
                  \A sp \in spans : p < sp[1] \/ p > sp[2] + Len(CloseTag) - 1})

InnerText(text, sp) == SubSeq(text, sp[1] + Len(OpenTag), sp[2] - 1)

IsPrefix(s, t) == Len(s) <= Len(t) /\ SubSeq(t, 1, Len(s)) = s

\* C4 as claimed: with a complete span in the text, thinking is the stripped
\* inner text of the first span and content is the stripped text with that
\* span, and only that span, removed.
C4_OnlyFirstSpanRemoved ==
    (Extracted /\ HasCompleteSpan(response_text)) =>
        /\ thinking = Some(Strip(InnerText(response_text, FirstSpan(response_text))))
        /\ content = Some(Strip(Without(response_text, {FirstSpan(response_text)})))

\* C4 as amended: with a complete span in the text, thinking is the stripped
\* inner text of the first span and content is the stripped text with every
\* complete span met left to right removed.
C4_EverySpanRemoved ==
    (Extracted /\ HasCompleteSpan(response_text)) =>
        /\ thinking = Some(Strip(InnerText(response_text, FirstSpan(response_text))))
        /\ content = Some(Strip(Without(response_text, SpansFrom(response_text, 1))))

\* C4 witness: a text with two complete spans was classified and both spans
\* are gone from content
C4_Witness ==
    /\ Extracted
    /\ Cardinality(SpansFrom(response_text, 1)) >= 2
    /\ thinking.some /\ content.some
    /\ ~Contains(content.val, OpenTag)

\* an opening tag but no complete span
InProgress(text) == Contains(text, OpenTag) /\ ~HasCompleteSpan(text)

\* C5 as claimed: with an opening tag and no complete span, content is absent
\* and thinking is the stripped text after an opening tag.
C5_ThinkingStripped ==
    (Extracted /\ InProgress(response_text)) =>
        /\ content = None
        /\ \E i \in Occurrences(response_text, OpenTag, 1) :
              thinking = Some(Strip(SubSeq(response_text, i + Len(OpenTag),
                                           Len(response_text))))

\* C5 as amended: with an opening tag and no complete span, content is absent
\* and thinking is the text after the last opening tag, exactly as received.
C5_ThinkingAfterLastTag ==
    (Extracted /\ InProgress(response_text)) =>
        /\ content = None
        /\ thinking = Some(SubSeq(response_text,
                Max(Occurrences(response_text, OpenTag, 1)) + Len(OpenTag),
                Len(response_text)))

\* C5 witness: an unfinished span with two opening tags and white space after
\* the last one was classified
C5_Witness ==
    /\ Extracted
    /\ InProgress(response_text)
    /\ Cardinality(Occurrences(response_text, OpenTag, 1)) >= 2
    /\ thinking.some /\ Len(thinking.val) > 0 /\ thinking.val[1] \in Whitespace

\* C8 as claimed: with no opening tag in the text, thinking is absent and
\* content is the stripped text.
C8_ContentStripped ==
    (Extracted /\ ~Contains(response_text, OpenTag)) =>
        /\ thinking = None
        /\ content = Some(Strip(response_text))

\* C8 as amended: with no opening tag in the text, thinking is absent and
\* content is the text exactly as received, white space included.
C8_ContentUnchanged ==
    (Extracted /\ ~Contains(response_text, OpenTag)) =>
        /\ thinking = None
        /\ content = Some(response_text)

\* C8 witness: a text without an opening tag and with white space at an end
\* was classified
C8_Witness ==
    /\ Extracted
    /\ ~Contains(response_text, OpenTag)
    /\ Len(response_text) > 1
    /\ response_text[1] \in Whitespace
    /\ content.some

\* 0: no tag seen, 1: reasoning in progress, 2: a complete span
Phase(th, co) == IF th.some /\ co.some THEN 2 ELSE IF th.some THEN 1 ELSE 0

\* C6 as claimed: from one classified prefix to the next the phase never moves
\* back, and while reasoning is in progress the thinking text of the longer
\* prefix extends that of the shorter one.
C6_ThinkingAlwaysExtends ==
    [][(pc = "stream" /\ pc' = "stream") =>
        /\ Phase(thinking', content') >= Phase(thinking, content)
        /\ (Phase(thinking, content) = 1 /\ Phase(thinking', content') = 1)
              => IsPrefix(thinking.val, thinking'.val)]_vars

\* C6 as amended: the phase never moves back, and while reasoning is in
\* progress the thinking text of the longer prefix extends that of the shorter
\* one provided no further opening tag has arrived in between.
C6_ThinkingExtendsUnderSameTag ==
    [][(pc = "stream" /\ pc' = "stream") =>
        /\ Phase(thinking', content') >= Phase(thinking, content)
        /\ (/\ Phase(thinking, content) = 1
            /\ Phase(thinking', content') = 1
            /\ Occurrences(response_text', OpenTag, 1)
                  = Occurrences(response_text, OpenTag, 1))
              => IsPrefix(thinking.val, thinking'.val)]_vars

\* C6 witness: a prefix classified as a complete span with more of the stream
\* still to come, the stream having begun before the opening tag
C6_Witness ==
    /\ pc = "stream"
    /\ Phase(thinking, content) = 2
    /\ Len(response_text) < Len(full)
    /\ ~OccursAt(full, OpenTag, 1)

====
